---- MODULE Spec2Model ----
(***************************************************************************)
(* A model of proxy-speedtest (src/src/main.rs): the latency probe         *)
(* (test_node_latency), the throughput probe (test_node_speed), the        *)
(* per-node evaluation loop of main and the final ranking.                 *)
(*                                                                         *)
(* Latencies are f64 values in the program.  They are modelled as IEEE-754 *)
(* binary64 numbers with a 53-bit significand held as a natural number in  *)
(* limbs of 15 bits, and every arithmetic step the program takes on them   *)
(* (the division by 1000.0, the running sum, the division by the sample    *)
(* count) rounds to nearest, ties to even, exactly as the hardware does.   *)
(***************************************************************************)
EXTENDS Integers, Sequences, FiniteSets, TLC

----------------------------------------------------------------------------
(* Natural numbers of arbitrary size: little-endian sequences of limbs in  *)
(* 0..Base-1 without leading zero limbs; <<>> is zero.                     *)

Base == 2^15

\* F applied to the value of v, which is computed once
With(v, F(_)) == CHOOSE r \in {F(x) : x \in {v}} : TRUE

RECURSIVE BigFromNat(_)
BigFromNat(n) == IF n = 0 THEN <<>> ELSE <<n % Base>> \o BigFromNat(n \div Base)

RECURSIVE BigTrim(_)
BigTrim(a) ==
    IF a = <<>> THEN <<>>
    ELSE IF a[Len(a)] = 0 THEN BigTrim(SubSeq(a, 1, Len(a) - 1)) ELSE a

\* limb i of a, zero past its length
Limb(a, i) == IF i > Len(a) THEN 0 ELSE a[i]

\* the limbs from the i-th of a + b, c being the carry into them
RECURSIVE BigAddC(_, _, _, _)
BigAddC(a, b, i, c) ==
    IF i > Len(a) /\ i > Len(b) THEN (IF c = 0 THEN <<>> ELSE <<c>>)
    ELSE <<(Limb(a, i) + Limb(b, i) + c) % Base>>
         \o BigAddC(a, b, i + 1, (Limb(a, i) + Limb(b, i) + c) \div Base)

BigAdd(a, b) == With(<<a, b>>, LAMBDA ab : BigAddC(ab[1], ab[2], 1, 0))

RECURSIVE BigMulC(_, _, _)
BigMulC(a, k, c) ==
    IF a = <<>> THEN BigFromNat(c)
    ELSE LET s == Head(a) * k + c
         IN  <<s % Base>> \o BigMulC(Tail(a), k, s \div Base)

\* a * k for 0 < k < Base
BigMulSmall(a, k) == With(a, LAMBDA av : BigMulC(av, k, 0))

\* long division of a by d (0 < d < Base), most significant limb first:
\* r is the remainder so far, q the quotient limbs found (little-endian)
RECURSIVE BigDivR(_, _, _, _, _)
BigDivR(a, d, i, r, q) ==
    IF i = 0 THEN [q |-> BigTrim(q), r |-> r]
    ELSE BigDivR(a, d, i - 1, (r * Base + a[i]) % d,
                 <<(r * Base + a[i]) \div d>> \o q)

BigDivSmall(a, d) == With(a, LAMBDA av : BigDivR(av, d, Len(av), 0, <<>>))

RECURSIVE BigCmpFrom(_, _, _)
BigCmpFrom(a, b, i) ==
    IF i = 0 THEN 0
    ELSE IF a[i] < b[i] THEN -1
    ELSE IF a[i] > b[i] THEN 1
    ELSE BigCmpFrom(a, b, i - 1)

\* -1, 0 or 1 as a < b, a = b, a > b
BigCmp(a, b) ==
    IF Len(a) < Len(b) THEN -1
    ELSE IF Len(a) > Len(b) THEN 1
    ELSE BigCmpFrom(a, b, Len(a))

BigOdd(a) == a # <<>> /\ a[1] % 2 = 1

\* the number of bits of a limb value 0 <= x < Base
RECURSIVE LimbBits(_)
LimbBits(x) == IF x = 0 THEN 0 ELSE 1 + LimbBits(x \div 2)

\* the number of bits of a (0 for zero)
BigBits(a) == IF a = <<>> THEN 0 ELSE 15 * (Len(a) - 1) + LimbBits(a[Len(a)])

\* a * 2^k
BigShl(a, k) ==
    IF a = <<>> \/ k = 0 THEN a
    ELSE [j \in 1..(k \div 15) |-> 0] \o BigMulSmall(a, 2^(k % 15))

\* whether a limb of a is not zero
BigNonZero(a) == \E j \in 1..Len(a) : a[j] # 0

\* the bits shifted out are the limbs of low below the bits of r, of which
\* there are b > 0: the first of them all is the guard bit
BigShrParts(low, qr, b) ==
    [q      |-> qr.q,
     guard  |-> qr.r >= 2^(b - 1),
     sticky |-> qr.r % 2^(b - 1) # 0 \/ BigNonZero(low)]

\* a \div 2^k for k > 0, with the first bit shifted out (guard) and whether
\* a bit after it is set (sticky); a whole limb is taken where k is a
\* multiple of the limb width
BigShr(a, k) ==
    IF k % 15 = 0
    THEN BigShrParts(SubSeq(a, 1, (k \div 15) - 1),
                     [q |-> SubSeq(a, (k \div 15) + 1, Len(a)), r |-> a[k \div 15]],
                     15)
    ELSE With(BigDivSmall(SubSeq(a, (k \div 15) + 1, Len(a)), 2^(k % 15)),
              LAMBDA qr : BigShrParts(SubSeq(a, 1, k \div 15), qr, k % 15))

----------------------------------------------------------------------------
(* f64.  A finite positive value is m * 2^e with 2^52 <= m < 2^53.         *)

MantBits == 53

TwoP52 == BigShl(<<1>>, MantBits - 1)
TwoP53 == BigShl(<<1>>, MantBits)

F64(m, e) == [inf |-> FALSE, m |-> m, e |-> e]

\* f64::INFINITY
F64Infinity == [inf |-> TRUE, m |-> <<>>, e |-> 0]

\* f64::is_infinite
IsInfinite(x) == x.inf

\* the significand m, 2^52 <= m <= 2^53, with the exponent e
F64Pack(m, e) == IF m = TwoP53 THEN F64(TwoP52, e + 1) ELSE F64(m, e)

\* m with the bits cut from it: up on more than half, or on half to even
F64RoundBits(m, guard, sticky, e) ==
    With(IF guard /\ (sticky \/ BigOdd(m)) THEN BigAdd(m, <<1>>) ELSE m,
         LAMBDA m1 : F64Pack(m1, e))

\* n is cut by k > 0 bits to 53 bits
F64RoundShift(n, k, sticky, e) ==
    With(BigShr(n, k),
         LAMBDA cut : F64RoundBits(cut.q, cut.guard, sticky \/ cut.sticky, e + k))

\* The value (n + f) * 2^e, n >= 2^53, 0 <= f < 1 and f > 0 iff sticky,
\* rounded to nearest, ties to even.
F64Round(n, sticky, e) ==
    With(n, LAMBDA nv : F64RoundShift(nv, BigBits(nv) - MantBits, sticky, e))

\* `n as f64` for an integer 0 < n < 2^31 (exact)
F64FromNat(n) ==
    With(BigFromNat(n),
         LAMBDA b : F64(BigShl(b, MantBits - BigBits(b)), BigBits(b) - MantBits))

\* x * 2^k / d
F64DivShift(x, d, k) ==
    With(BigDivSmall(BigShl(x.m, k), d),
         LAMBDA qr : F64Round(qr.q, qr.r # 0, x.e - k))

\* x / d for a finite x and an f64 d that is a whole number, 0 < d < Base
F64DivSmall(x, d) == With(x, LAMBDA xv : F64DivShift(xv, d, LimbBits(d) + 1))

\* 0.0
F64Zero == F64(<<>>, 0)

\* a + b for finite positive a, b, the lesser of their exponents being lo:
\* the exact sum has 54 bits or more
F64AddAligned(a, b, lo) ==
    F64Round(BigAdd(BigShl(a.m, a.e - lo), BigShl(b.m, b.e - lo)), FALSE, lo)

\* a + b for finite a, b >= 0 given by value
F64AddValues(a, b) ==
    IF a.m = <<>> THEN b
    ELSE IF b.m = <<>> THEN a
    ELSE F64AddAligned(a, b, IF a.e < b.e THEN a.e ELSE b.e)

\* a + b for finite a, b >= 0
F64Add(a, b) == With(<<a, b>>, LAMBDA ab : F64AddValues(ab[1], ab[2]))

\* a < b for finite positive a, b
F64Less(a, b) == a.e < b.e \/ (a.e = b.e /\ BigCmp(a.m, b.m) < 0)

F64Leq(a, b) == ~F64Less(b, a)

\* f64::partial_cmp on finite positive values (never None: no NaN arises)
F64PartialCmp(a, b) ==
    IF F64Less(a, b) THEN "Less" ELSE IF F64Less(b, a) THEN "Greater" ELSE "Equal"

----------------------------------------------------------------------------
(* Bounds of the model and constants of the program.                       *)

\* the network shows round trips of 1..MaxDur steps
MaxDur == 2

\* the throughput probe measures whole rates of 1..MaxRate Mbps
MaxRate == 2

\* the inventory holds 1..MaxNodes socks nodes
MaxNodes == 2

\* main: test_node_latency(*port, 10)
TestCount == 10

\* test_node_speed: size_mb <= 1024
MaxSizeMb == 1024

\* round-trip times in microseconds (Instant::elapsed().as_micros()) of the
\* probe of a single node: 45.7 ms, 91.4 ms, ...
ProbeDurations == {45700 * k : k \in 1..MaxDur}

\* round-trip times in microseconds of the nodes of a whole run, each node
\* keeping one: 125 ms, 250 ms, ...
RunDurations == {125000 * k : k \in 1..MaxDur}

\* measured rates (speed_mbps)
Rates == 1..MaxRate

\* Option<u32>
None == [some |-> FALSE, v |-> 0]
Some(v) == [some |-> TRUE, v |-> v]

\* -d values of the probe of a single node, and of a whole run
ProbeDownloads == {None, Some(MaxSizeMb)}
RunDownloads == {None, Some(MaxSizeMb), Some(2000)}

\* socks_nodes: (tag, port) pairs in inventory order
Inventory(n) == [k \in 1..n |-> [tag |-> k, port |-> 1080 + k]]

----------------------------------------------------------------------------
(* LatencyResult, SpeedResult, NodeResult.                                 *)

LatSuccess(med, avg, min, max) ==
    [kind |-> "Success", median |-> med, average |-> avg,
     minimum |-> min, maximum |-> max]
LatUnstable(valid, total) ==
    [kind |-> "Unstable", valid_count |-> valid, total_count |-> total]
LatAllFailed == [kind |-> "AllFailed"]
LatSessionError(err) == [kind |-> "SessionError", err |-> err]

SpeedSuccess(mbps) == [kind |-> "Success", mbps |-> mbps]
SpeedFailed(err) == [kind |-> "Failed", err |-> err]

\* a local not yet assigned in the current iteration of main's loop
Unset == [kind |-> "Unset"]
\* speed: None
NoSpeed == [kind |-> "None"]

NodeResult(node, lat, spd) ==
    [tag |-> node.tag, port |-> node.port, latency |-> lat, speed |-> spd]

----------------------------------------------------------------------------
(* test_node_latency: the reduction of the recorded latencies.             *)

\* start.elapsed().as_micros() as f64 / 1000.0
ElapsedMs(micros) == F64DivSmall(F64FromNat(micros), 1000)

\* ElapsedMs on the round-trip times of the model, computed once
ElapsedTable == [d \in ProbeDurations \cup RunDurations |-> ElapsedMs(d)]

\* latencies.into_iter().filter(|&l| !l.is_infinite()).collect()
ValidLatencies(lat) == SelectSeq(lat, LAMBDA l : ~IsInfinite(l))

\* one insertion into an ascending sequence
RECURSIVE InsertAsc(_, _)
InsertAsc(sorted, x) ==
    IF sorted = <<>> THEN <<x>>
    ELSE IF F64Less(x, Head(sorted)) THEN <<x>> \o sorted
    ELSE <<Head(sorted)>> \o InsertAsc(Tail(sorted), x)

\* sorted.sort_unstable_by(|a, b| a.partial_cmp(b).unwrap())
RECURSIVE SortAsc(_)
SortAsc(seq) ==
    IF seq = <<>> THEN <<>>
    ELSE With(SortAsc(SubSeq(seq, 1, Len(seq) - 1)),
              LAMBDA sorted : InsertAsc(sorted, seq[Len(seq)]))

\* sorted.iter().sum::<f64>(): a left fold of + from 0.0
RECURSIVE F64Sum(_)
F64Sum(seq) ==
    IF seq = <<>> THEN F64Zero
    ELSE F64Add(F64Sum(SubSeq(seq, 1, Len(seq) - 1)), seq[Len(seq)])

\* a variant: the lower middle element on an even count
MedianOfLower(sorted) == sorted[((Len(sorted) - 1) \div 2) + 1]

\* sorted[sorted.len() / 2], the index being zero-based
MedianOf(sorted) == sorted[(Len(sorted) \div 2) + 1]

\* sorted.iter().sum::<f64>() / sorted.len() as f64
AverageOf(sorted) == F64DivSmall(F64Sum(sorted), Len(sorted))

\* the count passed as Unstable's second field
UnstableTotal(lat, test_count) == test_count

\* a variant: two samples suffice
TooFewBelowTwo(n) == n < 2

\* valid_latencies.len() < 3
TooFew(n) == n < 3

\* lines 155-165
SuccessOf(sorted) ==
    LatSuccess(MedianOf(sorted), AverageOf(sorted), sorted[1], sorted[Len(sorted)])

\* lines 151-165
ReduceValid(lat, valid, test_count) ==
    IF TooFew(Len(valid))
    THEN LatUnstable(Len(valid), UnstableTotal(lat, test_count))
    ELSE With(SortAsc(valid), LAMBDA sorted : SuccessOf(sorted))

\* lines 142-165
LatencyOf(lat, test_count) ==
    IF lat = <<>> \/ \A j \in 1..Len(lat) : IsInfinite(lat[j])
    THEN LatAllFailed
    ELSE With(ValidLatencies(lat), LAMBDA valid : ReduceValid(lat, valid, test_count))

----------------------------------------------------------------------------
(* main: the ranking.                                                      *)

\* a variant: a Success latency is not ranked against a failed probe
CompareLatencyMediansOnly(a, b) ==
    IF a.latency.kind = "Success" /\ b.latency.kind = "Success"
    THEN F64PartialCmp(a.latency.median, b.latency.median)
    ELSE "Equal"

\* lines 393-401 and 404-412: the order by latency
CompareLatency(a, b) ==
    IF a.latency.kind = "Success" /\ b.latency.kind = "Success"
    THEN F64PartialCmp(a.latency.median, b.latency.median)
    ELSE IF a.latency.kind = "Success" THEN "Less"
    ELSE IF b.latency.kind = "Success" THEN "Greater"
    ELSE "Equal"

\* a variant: the rates compared the other way round
CompareSpeedAscending(a, b) ==
    IF a.speed.kind = "Success" /\ b.speed.kind = "Success"
    THEN F64PartialCmp(a.speed.mbps, b.speed.mbps)
    ELSE IF a.speed.kind = "Success" THEN "Less"
    ELSE IF b.speed.kind = "Success" THEN "Greater"
    ELSE "Equal"

\* lines 387-402: the order by throughput, then by latency
CompareSpeed(a, b) ==
    IF a.speed.kind = "Success" /\ b.speed.kind = "Success"
    THEN F64PartialCmp(b.speed.mbps, a.speed.mbps)
    ELSE IF a.speed.kind = "Success" THEN "Less"
    ELSE IF b.speed.kind = "Success" THEN "Greater"
    ELSE CompareLatency(a, b)

\* the comparator main hands to sort_by
Compare(a, b, by_speed) ==
    IF by_speed THEN CompareSpeed(a, b) ELSE CompareLatency(a, b)

\* slice::sort_by is stable, and an insertion sort on a short slice: the new
\* element moves left past every element it is Less than
RECURSIVE InsertBy(_, _, _)
InsertBy(sorted, x, by_speed) ==
    IF sorted = <<>> THEN <<x>>
    ELSE IF Compare(x, sorted[Len(sorted)], by_speed) = "Less"
    THEN InsertBy(SubSeq(sorted, 1, Len(sorted) - 1), x, by_speed)
             \o <<sorted[Len(sorted)]>>
    ELSE sorted \o <<x>>

RECURSIVE SortBy(_, _)
SortBy(seq, by_speed) ==
    IF seq = <<>> THEN <<>>
    ELSE With(SortBy(SubSeq(seq, 1, Len(seq) - 1), by_speed),
              LAMBDA sorted : InsertBy(sorted, seq[Len(seq)], by_speed))

----------------------------------------------------------------------------
(* The state of a run.                                                     *)

VARIABLES
    nodes,        \* socks_nodes
    download_mb,  \* Args.download_mb
    net,          \* the sets of round-trip times a node's network may show
    rtt,          \* the round-trip times the network of the node probed shows
    pc,           \* the position of main, inside the probes too
    idx,          \* the loop index of main, 1-based
    i,            \* the loop index of test_node_latency
    latencies,    \* test_node_latency's latencies
    latency,      \* main's latency
    speed,        \* main's speed
    results,      \* main's results
    warmups,      \* untimed HEAD requests sent by the running latency probe
    timed,        \* timed HEAD requests sent by the running latency probe
    gets          \* GET requests sent for the current node

vars == <<nodes, download_mb, net, rtt, pc, idx, i, latencies, latency, speed,
          results, warmups, timed, gets>>

InitLocals ==
    /\ pc = "loop"
    /\ rtt = {}
    /\ idx = 1
    /\ i = 0
    /\ latencies = <<>>
    /\ latency = Unset
    /\ speed = Unset
    /\ results = <<>>
    /\ warmups = 0
    /\ timed = 0
    /\ gets = 0

\* one node, any round-trip time on any attempt
InitProbe ==
    /\ nodes = Inventory(1)
    /\ download_mb \in ProbeDownloads
    /\ net = {ProbeDurations}
    /\ InitLocals

\* up to MaxNodes nodes, each with a round-trip time of its own
InitRun ==
    /\ \E n \in 1..MaxNodes : nodes = Inventory(n)
    /\ net = {{d} : d \in RunDurations}
    /\ download_mb \in RunDownloads
    /\ InitLocals

env == <<nodes, download_mb, net>>

----------------------------------------------------------------------------
(* main's loop over the nodes (lines 327-383).                             *)

\* for (idx, (tag, port)) in socks_nodes.iter().enumerate()
LoopNext ==
    /\ pc = "loop"
    /\ IF idx <= Len(nodes)
       THEN pc' = "lat_proxy" /\ rtt' \in net
       ELSE pc' = "sort" /\ UNCHANGED rtt
    /\ UNCHANGED <<env, idx, i, latencies, latency, speed, results,
                   warmups, timed, gets>>

----------------------------------------------------------------------------
(* test_node_latency (lines 88-166).                                       *)

\* lines 92-95: Proxy::all
LatProxy ==
    /\ pc = "lat_proxy"
    /\ \/ /\ pc' = "lat_client"
          /\ UNCHANGED latency
       \/ /\ latency' = LatSessionError("Failed to create proxy")
          /\ pc' = "speed_opt"
    /\ UNCHANGED <<env, rtt, idx, i, latencies, speed, results, warmups, timed, gets>>

\* lines 97-108: Client::builder()...build(), then latencies = Vec::new()
LatClient ==
    /\ pc = "lat_client"
    /\ \/ /\ pc' = "lat_warmup"
          /\ latencies' = <<>>
          /\ UNCHANGED latency
       \/ /\ latency' = LatSessionError("Failed to create client")
          /\ pc' = "speed_opt"
          /\ UNCHANGED latencies
    /\ UNCHANGED <<env, rtt, idx, i, speed, results, warmups, timed, gets>>

\* lines 110-113: the warm-up request, its outcome dropped; the for loop starts
LatWarmup ==
    /\ pc = "lat_warmup"
    /\ warmups' = warmups + 1
    /\ i' = 0
    /\ pc' = "lat_loop"
    /\ UNCHANGED <<env, rtt, idx, latencies, latency, speed, results, timed, gets>>

\* a variant: a failed attempt does not end the loop
LatAttemptNoBreak ==
    /\ pc = "lat_loop"
    /\ i < TestCount
    /\ timed' = timed + 1
    /\ \/ \E d \in rtt :
             latencies' = Append(latencies, ElapsedTable[d])
       \/ latencies' = Append(latencies, F64Infinity)
    /\ i' = i + 1
    /\ pc' = "lat_loop"
    /\ UNCHANGED <<env, rtt, idx, latency, speed, results, warmups, gets>>

\* lines 113-140: one timed attempt
LatAttempt ==
    /\ pc = "lat_loop"
    /\ i < TestCount
    /\ timed' = timed + 1
    /\ \/ \* Ok(Ok(response)), a success status
          \E d \in rtt :
             /\ latencies' = Append(latencies, ElapsedTable[d])
             /\ i' = i + 1
             /\ pc' = "lat_loop"
       \/ \* a non-success status, Ok(Err(e)) or Err(_): push INFINITY, break
          \E failure \in {"HTTP Error", "Error", "Timeout"} :
             /\ latencies' = Append(latencies, F64Infinity)
             /\ pc' = "lat_reduce"
             /\ UNCHANGED i
    /\ UNCHANGED <<env, rtt, idx, latency, speed, results, warmups, gets>>

\* line 113: the range 0..test_count is exhausted
LatLoopEnd ==
    /\ pc = "lat_loop"
    /\ i >= TestCount
    /\ pc' = "lat_reduce"
    /\ UNCHANGED <<env, rtt, idx, i, latencies, latency, speed, results,
                   warmups, timed, gets>>

\* lines 142-165: the value test_node_latency returns
LatReduce ==
    /\ pc = "lat_reduce"
    /\ latency' = LatencyOf(latencies, TestCount)
    /\ pc' = "speed_opt"
    /\ UNCHANGED <<env, rtt, idx, i, latencies, speed, results,
                   warmups, timed, gets>>

----------------------------------------------------------------------------
(* main, lines 359-374, and test_node_speed (lines 168-229).               *)

\* line 337: test_node_latency has returned and its locals are gone;
\* if let Some(size_mb) = download_mb { test_node_speed(..) } else { None }
SpeedOpt ==
    /\ pc = "speed_opt"
    /\ IF download_mb.some
       THEN pc' = "spd_proxy" /\ UNCHANGED speed
       ELSE pc' = "push" /\ speed' = NoSpeed
    /\ latencies' = <<>>
    /\ i' = 0
    /\ warmups' = 0
    /\ timed' = 0
    /\ UNCHANGED <<env, rtt, idx, latency, results, gets>>

\* lines 171-174
SpdProxy ==
    /\ pc = "spd_proxy"
    /\ \/ pc' = "spd_client" /\ UNCHANGED speed
       \/ pc' = "push" /\ speed' = SpeedFailed("Failed to create proxy")
    /\ UNCHANGED <<env, rtt, idx, i, latencies, latency, results, warmups, timed, gets>>

\* lines 176-185
SpdClient ==
    /\ pc = "spd_client"
    /\ \/ pc' = "spd_size" /\ UNCHANGED speed
       \/ pc' = "push" /\ speed' = SpeedFailed("Failed to create client")
    /\ UNCHANGED <<env, rtt, idx, i, latencies, latency, results, warmups, timed, gets>>

\* a variant: the limit doubled
SizeSupportedTo2048(size_mb) == size_mb <= 2 * MaxSizeMb

\* size_mb <= 1024
SizeSupported(size_mb) == size_mb <= MaxSizeMb

\* lines 187-194
SpdSize ==
    /\ pc = "spd_size"
    /\ IF SizeSupported(download_mb.v)
       THEN pc' = "spd_send" /\ UNCHANGED speed
       ELSE pc' = "push" /\ speed' = SpeedFailed("Size too large")
    /\ UNCHANGED <<env, rtt, idx, i, latencies, latency, results, warmups, timed, gets>>

\* lines 199-203 and 222-228: the GET request and its status
SpdSend ==
    /\ pc = "spd_send"
    /\ gets' = gets + 1
    /\ \/ pc' = "spd_body" /\ UNCHANGED speed
       \/ \E err \in {"HTTP Error", "Request error", "Timeout"} :
             pc' = "push" /\ speed' = SpeedFailed(err)
    /\ UNCHANGED <<env, rtt, idx, i, latencies, latency, results, warmups, timed>>

\* lines 204-221: the body, and the rate from its size and the time taken
SpdBody ==
    /\ pc = "spd_body"
    /\ \/ \E r \in Rates : speed' = SpeedSuccess(F64FromNat(r))
       \/ speed' = SpeedFailed("Failed to read response")
    /\ pc' = "push"
    /\ UNCHANGED <<env, rtt, idx, i, latencies, latency, results, warmups, timed, gets>>

\* a variant: a node whose latency probe did not succeed ends the loop
PushStopOnFailure ==
    /\ pc = "push"
    /\ results' = Append(results, NodeResult(nodes[idx], latency, speed))
    /\ idx' = idx + 1
    /\ pc' = IF latency.kind = "Success" THEN "loop" ELSE "sort"
    /\ latency' = Unset
    /\ speed' = Unset
    /\ gets' = 0
    /\ rtt' = {}
    /\ UNCHANGED <<env, i, latencies, warmups, timed>>

\* lines 376-383: results.push(NodeResult {..}); the iteration's locals end
Push ==
    /\ pc = "push"
    /\ results' = Append(results, NodeResult(nodes[idx], latency, speed))
    /\ idx' = idx + 1
    /\ pc' = "loop"
    /\ latency' = Unset
    /\ speed' = Unset
    /\ gets' = 0
    /\ rtt' = {}
    /\ UNCHANGED <<env, i, latencies, warmups, timed>>

\* lines 386-413
Sort ==
    /\ pc = "sort"
    /\ results' = SortBy(results, download_mb.some)
    /\ pc' = "done"
    /\ UNCHANGED <<env, rtt, idx, i, latencies, latency, speed, warmups, timed, gets>>

Next ==
    \/ LoopNext
    \/ LatProxy
    \/ LatClient
    \/ LatWarmup
    \/ LatAttempt
    \/ LatLoopEnd
    \/ LatReduce
    \/ SpeedOpt
    \/ SpdProxy
    \/ SpdClient
    \/ SpdSize
    \/ SpdSend
    \/ SpdBody
    \/ Push
    \/ Sort

\* the probes of one node
SpecProbe == InitProbe /\ [][Next]_vars

\* a run over an inventory
SpecRun == InitRun /\ [][Next]_vars

\* every request carries a timeout and main runs on one thread: a run that
\* can take a step takes it
FairSpecRun == SpecRun /\ WF_vars(Next)

----------------------------------------------------------------------------
(* The properties.                                                         *)

\* test_node_latency has returned a classification of the recorded attempts
Returned == pc = "speed_opt" /\ latency.kind # "SessionError"

\* the successful attempts among those recorded
ValidCount == Len(ValidLatencies(latencies))

Valid == ValidLatencies(latencies)

\* how many of the successful attempts are below x, and not above x
CountBelow(x) == Cardinality({j \in 1..Len(Valid) : F64Less(Valid[j], x)})
CountUpTo(x) == Cardinality({j \in 1..Len(Valid) : F64Leq(Valid[j], x)})

\* the j-th attempt is the first that failed
FirstFailureAt(j) ==
    /\ j \in 1..Len(latencies)
    /\ IsInfinite(latencies[j])
    /\ \A k \in 1..(j - 1) : ~IsInfinite(latencies[k])

\* C1: whenever test_node_latency returns Unstable(valid_count, total_count),
\* total_count is the number of timed attempts made: at most the budget, and
\* the 1-based index of the first failing attempt when one failed.
C1_UnstableTotalIsAttemptsMade ==
    (Returned /\ latency.kind = "Unstable") =>
        /\ latency.total_count = timed
        /\ latency.total_count <= TestCount
        /\ \A j \in 1..Len(latencies) :
              FirstFailureAt(j) => latency.total_count = j

\* C2 as stated: on an even number n of successes the median is the lower of
\* the two middle elements, the n/2-th smallest.
C2_MedianIsLowerMiddle ==
    (Returned /\ latency.kind = "Success" /\ ValidCount % 2 = 0) =>
        /\ CountBelow(latency.median) <= (ValidCount \div 2) - 1
        /\ CountUpTo(latency.median) >= ValidCount \div 2

\* C2 as amended: on an even number n of successes the median is the element
\* at zero-based index n/2 of the ascending durations, the upper of the two
\* middle elements, the (n/2 + 1)-th smallest.
C2_MedianIsUpperMiddle ==
    (Returned /\ latency.kind = "Success" /\ ValidCount % 2 = 0) =>
        /\ CountBelow(latency.median) <= ValidCount \div 2
        /\ CountUpTo(latency.median) >= (ValidCount \div 2) + 1

\* four successes, the two middle ones of which differ
C2_Witness ==
    /\ Returned
    /\ latency.kind = "Success"
    /\ ValidCount = 4
    /\ CountBelow(latency.median) = 2
    /\ CountUpTo(latency.median) = 4

\* C3: the classification follows the number of successful attempts:
\* AllFailed iff none (of at least one attempt), Unstable iff one or two,
\* Success iff three or more.
C3_ClassificationByValidCount ==
    Returned =>
        /\ latency.kind \in {"AllFailed", "Unstable", "Success"}
        /\ latency.kind = "AllFailed" <=> (ValidCount = 0 /\ Len(latencies) >= 1)
        /\ latency.kind = "Unstable" <=> (0 < ValidCount /\ ValidCount < 3)
        /\ latency.kind = "Success" <=> ValidCount >= 3
        /\ latency.kind = "Unstable" => latency.valid_count = ValidCount

\* two successes and a failure, reported as Unstable
C3_Witness ==
    /\ Returned
    /\ latency.kind = "Unstable"
    /\ ValidCount = 2
    /\ Len(latencies) = 3

\* C4: after the single warm-up request the timed attempts are issued one
\* after another and stop at the first that fails: every timed request has
\* one entry, there are at most TestCount of them, a failure marker
\* is the last entry only, and once it is recorded the loop is over.
C4_StopsAtFirstFailure ==
    /\ timed = Len(latencies)
    /\ Len(latencies) <= TestCount
    /\ warmups <= 1
    /\ timed > 0 => warmups = 1
    /\ \A j \in 1..(Len(latencies) - 1) : ~IsInfinite(latencies[j])
    /\ (latencies # <<>> /\ IsInfinite(latencies[Len(latencies)]))
          => pc \in {"lat_reduce", "speed_opt"}

\* the loop has ended on a failure that follows two successes
C4_Witness ==
    /\ pc = "lat_reduce"
    /\ Len(latencies) = 3
    /\ IsInfinite(latencies[3])
    /\ timed = 3
    /\ warmups = 1

\* the run is over and the ranking made
Ranked == pc = "done"

\* C5: with throughput testing enabled, every node with a Success throughput
\* is ranked before every node without one, and of two Success throughputs
\* the strictly higher is ranked first, whatever the latencies.
C5_RankedByThroughput ==
    (Ranked /\ download_mb.some) =>
        \A p, q \in 1..Len(results) :
            (p < q /\ results[q].speed.kind = "Success") =>
                /\ results[p].speed.kind = "Success"
                /\ ~F64Less(results[p].speed.mbps, results[q].speed.mbps)

\* the second node of the inventory is ranked first on its rate, against the
\* latencies: it has no latency Success and the other node has one
C5_Witness ==
    /\ Ranked
    /\ download_mb.some
    /\ Len(results) = 2
    /\ results[1].tag = 2
    /\ results[1].speed.kind = "Success"
    /\ results[1].latency.kind = "AllFailed"
    /\ results[2].speed.kind = "Failed"
    /\ results[2].latency.kind = "Success"

\* two nodes of the ranking are ordered by latency
ByLatency(a, b) ==
    ~download_mb.some \/ (a.speed.kind # "Success" /\ b.speed.kind # "Success")

\* C6: where two nodes are ordered by latency, a Success latency is ranked
\* before every other latency result, and of two Success latencies the
\* strictly smaller median is ranked first.
C6_RankedByLatency ==
    Ranked =>
        \A p, q \in 1..Len(results) :
            (p < q /\ ByLatency(results[p], results[q])
                   /\ results[q].latency.kind = "Success") =>
                /\ results[p].latency.kind = "Success"
                /\ ~F64Less(results[q].latency.median, results[p].latency.median)

\* throughput testing enabled and failed on both nodes: the second node of
\* the inventory is ranked first on its smaller median
C6_Witness ==
    /\ Ranked
    /\ download_mb.some
    /\ Len(results) = 2
    /\ results[1].tag = 2
    /\ results[1].speed.kind = "Failed"
    /\ results[2].speed.kind = "Failed"
    /\ results[1].latency.kind = "Success"
    /\ results[2].latency.kind = "Success"
    /\ F64Less(results[1].latency.median, results[2].latency.median)

\* main is inside test_node_speed
InSpeedProbe == pc \in {"spd_proxy", "spd_client", "spd_size", "spd_send", "spd_body"}

\* C7: when the latency probe of a node ends in SessionError, no throughput
\* probe is attempted for that node.
C7_NoSpeedProbeAfterSessionError ==
    latency.kind = "SessionError" =>
        /\ ~InSpeedProbe
        /\ gets = 0
        /\ pc = "push" => speed = NoSpeed

\* results holds exactly one NodeResult per node of the inventory
OnePerNode ==
    /\ Len(results) = Len(nodes)
    /\ \A k \in 1..Len(nodes) :
          Cardinality({p \in 1..Len(results) :
                          /\ results[p].tag = nodes[k].tag
                          /\ results[p].port = nodes[k].port}) = 1

\* the nodes before idx have been evaluated, in inventory order
EvaluatedSoFar ==
    /\ Len(results) = idx - 1
    /\ \A k \in 1..Len(results) :
          /\ results[k].tag = nodes[k].tag
          /\ results[k].latency.kind # "Unset"
          /\ results[k].speed.kind # "Unset"

\* C8: whatever the outcomes, the run terminates with one NodeResult per
\* node: until the ranking, the nodes before idx are evaluated each in its
\* turn, none stops the loop, and the run ends ranked with all of them.
C8_RunCompletes ==
    /\ [](pc \notin {"sort", "done"} => EvaluatedSoFar)
    /\ [](pc \in {"sort", "done"} => OnePerNode)
    /\ <>(pc = "done")

\* the run is over although the first node's probes failed
C8_Witness ==
    /\ pc = "done"
    /\ Len(nodes) = 2
    /\ \E p, q \in 1..2 :
          /\ results[p].tag = 1
          /\ results[p].latency.kind = "SessionError"
          /\ results[p].speed.kind = "Failed"
          /\ results[q].tag = 2
          /\ results[q].latency.kind = "Success"

\* the run asks for more than the largest download supported
Oversized == download_mb.some /\ download_mb.v > MaxSizeMb

\* C9 as stated: a throughput probe of more than 1024 MB yields
\* Failed("size too large") and sends no request.
C9_OversizedAlwaysSizeTooLarge ==
    Oversized =>
        /\ gets = 0
        /\ pc = "push" => speed = SpeedFailed("Size too large")

\* C9 as amended: a throughput probe of more than 1024 MB sends no request
\* and yields Failed: with the size-too-large reason once the proxy and the
\* client are built, which comes first, and with their failure otherwise.
C9_OversizedFailsWithoutRequest ==
    Oversized =>
        /\ gets = 0
        /\ pc \notin {"spd_send", "spd_body"}
        /\ pc = "push" =>
              /\ speed.kind = "Failed"
              /\ speed.err \in {"Size too large", "Failed to create proxy",
                                "Failed to create client"}

\* test_node_speed has returned size too large for 2000 MB
C9_Witness ==
    /\ pc = "push"
    /\ download_mb = Some(2000)
    /\ speed = SpeedFailed("Size too large")
    /\ gets = 0

\* C10: every latency Success has minimum <= median <= maximum and
\* minimum <= average <= maximum, the statistics being those of the
\* successful attempts alone.
C10_StatisticsWithinRange ==
    (Returned /\ latency.kind = "Success") =>
        /\ F64Leq(latency.minimum, latency.median)
        /\ F64Leq(latency.median, latency.maximum)
        /\ F64Leq(latency.minimum, latency.average)
        /\ F64Leq(latency.average, latency.maximum)
        /\ \A j \in 1..Len(Valid) :
              /\ F64Leq(latency.minimum, Valid[j])
              /\ F64Leq(Valid[j], latency.maximum)
        /\ \E j \in 1..Len(Valid) : latency.minimum = Valid[j]
        /\ \E j \in 1..Len(Valid) : latency.maximum = Valid[j]
        /\ \E j \in 1..Len(Valid) : latency.median = Valid[j]

====
